---- MODULE Spec2Model ----
(***************************************************************************)
(* Command batch execution of olstenlarck/hela.                            *)
(*                                                                         *)
(* Two exec/shell pairs are modelled side by side:                         *)
(*   - @tunnckocore/execa  exec, shell   (p-map over execa.command)        *)
(*   - hela-core           exec, shell   (for-of loop awaiting each one)   *)
(* One behaviour is one call of one of the four entry points on an input   *)
(* the caller chose, followed by the completions of the spawned commands.  *)
(* The hela() program of hela-core (action, listen) and createBuildConfig  *)
(* of hela-dev have specifications of their own further down.              *)
(* JavaScript arrays are 0-based; sequences here are 1-based, so index i   *)
(* of the model is index i-1 of the code.                                  *)
(***************************************************************************)
EXTENDS Integers, Sequences, FiniteSets, TLC

\* Longest command list the caller passes.
MaxLen == 3
\* Largest finite options.concurrency the caller passes.
MaxConcurrency == 2
\* How many times the caller calls an entry point in a row.
MaxCalls == 2

(***************************************************************************)
(* Values                                                                  *)
(***************************************************************************)

\* Command strings; "" stands for the falsy entries filter(Boolean) drops.
CommandStrings == {"", "echo a", "echo b", "exit 3", "exit 4"}

\* The cmds argument: one string, or an array of strings.
CommandLists == UNION {[1..n -> CommandStrings] : n \in 0..MaxLen}
Inputs ==
  [kind : {"string"}, value : CommandStrings]
    \cup [kind : {"array"}, value : CommandLists]

\* An option bag is a function from the option names it holds to their values.
EmptyBag == [k \in {} |-> TRUE]
OptionBags ==
  { c @@ s @@ p @@ o :
      c \in {EmptyBag} \cup {"concurrency" :> n : n \in 1..MaxConcurrency},
      s \in {EmptyBag, "shell" :> FALSE, "shell" :> TRUE},
      p \in {EmptyBag, "preferLocal" :> FALSE},
      o \in {EmptyBag, "stdio" :> "pipe"} }

\* Object.assign(target, source): source's own keys override target's.
ObjectAssign(target, source) ==
  [k \in DOMAIN target \cup DOMAIN source |->
     IF k \in DOMAIN source THEN source[k] ELSE target[k]]

\* The rest pattern { key = ..., ...rest }: every key but `key`.
RestWithout(bag, key) == [k \in DOMAIN bag \ {key} |-> bag[k]]

\* A concurrency value: Infinity, or a finite number n.
Infinity == [finite |-> FALSE, n |-> 0]
Finite(n) == [finite |-> TRUE, n |-> n]
\* i < c for a loop counter i and a concurrency value c.
LessThan(i, c) == (~c.finite) \/ i < c.n

\* JavaScript values a promise settles with.
Undefined == [type |-> "undefined"]
ArrayValue(items) == [type |-> "array", items |-> items]

Pending == [state |-> "pending", value |-> Undefined]
Fulfilled(v) == [state |-> "fulfilled", value |-> v]
Rejected(e) == [state |-> "rejected", value |-> e]

(***************************************************************************)
(* execa.command, the process runner: one subprocess per call.  "echo x"   *)
(* exits 0 printing x; "exit n" exits n, which execa reports by rejecting. *)
(***************************************************************************)
ExitCode(cmd) ==
  CASE cmd = "exit 3" -> 3
    [] cmd = "exit 4" -> 4
    [] OTHER -> 0

Stdout(cmd) ==
  CASE cmd = "echo a" -> "a"
    [] cmd = "echo b" -> "b"
    [] OTHER -> ""

Succeeds(cmd) == ExitCode(cmd) = 0

ExecaResult(cmd) ==
  [type |-> "result", command |-> cmd, exitCode |-> 0, stdout |-> Stdout(cmd)]

ExecaError(cmd) ==
  [type |-> "error", command |-> cmd, exitCode |-> ExitCode(cmd),
   stdout |-> Stdout(cmd)]

\* execa.command(cmd, opts): what the runner was handed, at filtered index i.
ExecaCommand(i, cmd, o) == [index |-> i, cmd |-> cmd, opts |-> o]

(***************************************************************************)
(* Input normalisation, shared by both exec functions.                     *)
(***************************************************************************)

\* [].concat(cmds): a fresh array; an array argument is spread one level.
ConcatEmpty(input) ==
  IF input.kind = "array" THEN input.value ELSE <<input.value>>

\* Boolean(cmd) for a string.
Boolean(cmd) == cmd # ""

\* Variant of FilterBoolean that keeps every entry.
FilterBooleanKeepAll(list) == list

RECURSIVE FilterBoolean(_)
\* list.filter(Boolean): a fresh array of the truthy entries, order kept.
FilterBoolean(list) ==
  IF list = <<>> THEN <<>>
  ELSE IF Boolean(Head(list))
       THEN <<Head(list)>> \o FilterBoolean(Tail(list))
       ELSE FilterBoolean(Tail(list))

\* Variant of NormalizeCommands without the filter.
NormalizeCommandsNoFilter(input) == ConcatEmpty(input)

\* const commands = [].concat(cmds).filter(Boolean)
NormalizeCommands(input) == FilterBoolean(ConcatEmpty(input))

\* Variant of CallerInputAfter for a filter done in place on the argument.
CallerInputAfterInPlace(input) ==
  IF input.kind = "array"
  THEN [input EXCEPT !.value = FilterBoolean(input.value)]
  ELSE input

\* The caller's cmds value after the call: concat and filter both build new
\* arrays, nothing writes to the argument.
CallerInputAfter(input) == input

(***************************************************************************)
(* State                                                                   *)
(***************************************************************************)
VARIABLES
  cmds,            \* the caller's cmds argument (the caller keeps the reference)
  options,         \* the caller's options argument
  entry,           \* which entry point was called, "none" before the call
  commands,        \* const commands of exec
  opts,            \* the options object handed to execa.command
  concurrency,     \* exec's destructured concurrency (execa package only)
  spawned,         \* the execa.command calls made so far, in call order
  running,         \* filtered indexes whose subprocess has not completed
  ret,             \* p-map's ret array / nothing in hela-core
  currentIndex,    \* p-map's currentIndex; the for-of position in hela-core
  resolvingCount,  \* p-map's resolvingCount
  isRejected,      \* p-map's isRejected
  isIterableDone,  \* p-map's isIterableDone
  promise,         \* the promise exec returned
  callsLeft,       \* how many more calls the caller makes
  previous,        \* what the caller got from its previous call, if any
  cli,             \* one invocation of a hela() program, see listen below
  build            \* one call of createBuildConfig, see below

vars ==
  <<cmds, options, entry, commands, opts, concurrency, spawned, running, ret,
    currentIndex, resolvingCount, isRejected, isIterableDone, promise,
    callsLeft, previous, cli, build>>

\* The variables of the batch executor.
batchVars ==
  <<cmds, options, entry, commands, opts, concurrency, spawned, running, ret,
    currentIndex, resolvingCount, isRejected, isIterableDone, promise,
    callsLeft, previous>>

\* The caller has made no call yet.
NoPrevious == [called |-> FALSE]
\* No hela() program is being run / createBuildConfig is not being called.
NoCli == [pc |-> "unused"]
NoBuild == [pc |-> "unused"]

\* The batch executor at rest: no call is made in this behaviour.
BatchUnused ==
  /\ cmds = [kind |-> "array", value |-> <<>>]
  /\ options = EmptyBag
  /\ entry = "none"
  /\ commands = <<>>
  /\ opts = EmptyBag
  /\ concurrency = Infinity
  /\ spawned = <<>>
  /\ running = {}
  /\ ret = EmptyBag
  /\ currentIndex = 0
  /\ resolvingCount = 0
  /\ isRejected = FALSE
  /\ isIterableDone = FALSE
  /\ promise = Pending
  /\ callsLeft = 0
  /\ previous = NoPrevious

\* The caller's arguments and the state before any call.
InitBatch ==
  /\ cmds \in Inputs
  /\ options \in OptionBags
  /\ entry = "none"
  /\ commands = <<>>
  /\ opts = EmptyBag
  /\ concurrency = Infinity
  /\ spawned = <<>>
  /\ running = {}
  /\ ret = EmptyBag
  /\ currentIndex = 0
  /\ resolvingCount = 0
  /\ isRejected = FALSE
  /\ isIterableDone = FALSE
  /\ promise = Pending
  /\ previous = NoPrevious
  /\ cli = NoCli
  /\ build = NoBuild

\* One call.
Init ==
  /\ InitBatch
  /\ callsLeft = 1

\* The caller may call entry point `name` when it has calls left and no batch
\* is under way: before its first call, or, to repeat the call it made, when
\* the previous batch has settled and its subprocesses have all completed.
CanCall(name) ==
  /\ callsLeft > 0
  /\ \/ entry = "none"
     \/ (entry = name /\ promise.state # "pending" /\ running = {})

\* What the caller has observed of the batch when it calls again: the entry
\* point, the runner calls in start order, and how the promise settled.
BatchOutcome ==
  [called |-> TRUE, entry |-> entry, started |-> spawned, promise |-> promise]

\* The bookkeeping of a call on the caller's side.
CallerCalls ==
  /\ callsLeft' = callsLeft - 1
  /\ previous' = IF entry = "none" THEN previous ELSE BatchOutcome

(***************************************************************************)
(* p-map, as exec calls it: pMap(commands, mapper, { concurrency }).       *)
(* A p-map state is the record of p-map's closure variables together with  *)
(* the runner calls and the returned promise.                              *)
(***************************************************************************)
PMapState ==
  [spawned |-> spawned, running |-> running, ret |-> ret,
   currentIndex |-> currentIndex, resolvingCount |-> resolvingCount,
   isRejected |-> isRejected, isIterableDone |-> isIterableDone,
   promise |-> promise]

\* resolve / reject of the returned promise: only the first settles it.
Settle(p, outcome) == IF p.state = "pending" THEN outcome ELSE p

\* The mapper exec passes: (cmd) => execa.command(cmd, opts).
ExecaMapper(i, cmd, o) == ExecaCommand(i, cmd, o)

\* p-map's next(): take the item at the front of what is left and start its
\* mapper, or note the end of the input and resolve when nothing is in flight.
PMapNext(s, items, o) ==
  IF s.isRejected THEN s
  ELSE LET i == s.currentIndex + 1
           t == [s EXCEPT !.currentIndex = s.currentIndex + 1]
       IN IF i > Len(items)
          THEN [t EXCEPT !.isIterableDone = TRUE,
                         !.promise =
                            IF s.resolvingCount = 0
                            THEN Settle(s.promise,
                                        Fulfilled(ArrayValue(s.ret)))
                            ELSE s.promise]
          ELSE [t EXCEPT !.resolvingCount = s.resolvingCount + 1,
                         !.spawned =
                            Append(s.spawned, ExecaMapper(i, items[i], o)),
                         !.running = s.running \cup {i}]

RECURSIVE PMapLoop(_, _, _, _, _)
\* for (let i = 0; i < concurrency; i++) { next(); if (isIterableDone) break; }
PMapLoop(s, items, o, c, i) ==
  IF ~LessThan(i, c) THEN s
  ELSE LET t == PMapNext(s, items, o)
       IN IF t.isIterableDone THEN t ELSE PMapLoop(t, items, o, c, i + 1)

\* p-map's closure variables as a call of pMap creates them.
PMapFresh ==
  [spawned |-> <<>>, running |-> {}, ret |-> EmptyBag,
   currentIndex |-> 0, resolvingCount |-> 0,
   isRejected |-> FALSE, isIterableDone |-> FALSE,
   promise |-> Pending]

\* pMap(commands, mapper, { concurrency }) up to its return.
PMap(items, o, c) == PMapLoop(PMapFresh, items, o, c, 0)

\* The mapper's promise fulfilled for index i:
\* ret[i] = value; resolvingCount--; next();
PMapFulfilled(s, items, o, i) ==
  PMapNext([s EXCEPT !.ret = (i :> ExecaResult(items[i])) @@ s.ret,
                     !.resolvingCount = s.resolvingCount - 1,
                     !.running = s.running \ {i}],
           items, o)

\* The mapper's promise rejected for index i: isRejected = true; reject(error);
PMapRejected(s, items, i) ==
  [s EXCEPT !.isRejected = TRUE,
            !.running = s.running \ {i},
            !.promise = Settle(s.promise, Rejected(ExecaError(items[i])))]

SetPMapState(s) ==
  /\ spawned' = s.spawned
  /\ running' = s.running
  /\ ret' = s.ret
  /\ currentIndex' = s.currentIndex
  /\ resolvingCount' = s.resolvingCount
  /\ isRejected' = s.isRejected
  /\ isIterableDone' = s.isIterableDone
  /\ promise' = s.promise

(***************************************************************************)
(* @tunnckocore/execa                                                      *)
(***************************************************************************)

\* Variant of ExecaAssigned in which the default overrides the caller.
ExecaAssignedDefaultWins(callOptions) ==
  ObjectAssign(callOptions, "preferLocal" :> TRUE)

\* Object.assign({ preferLocal: true }, options)
ExecaAssigned(callOptions) ==
  ObjectAssign("preferLocal" :> TRUE, callOptions)

\* Variant of ExecaConcurrency that drops the caller's value.
ExecaConcurrencyDropped(callOptions) == Infinity

\* Variant of ExecaConcurrency whose default is serial.
ExecaConcurrencyDefaultOne(callOptions) ==
  IF "concurrency" \in DOMAIN ExecaAssigned(callOptions)
  THEN Finite(ExecaAssigned(callOptions)["concurrency"])
  ELSE Finite(1)

\* const { concurrency = Infinity, ...opts } = Object.assign(...)
ExecaConcurrency(callOptions) ==
  IF "concurrency" \in DOMAIN ExecaAssigned(callOptions)
  THEN Finite(ExecaAssigned(callOptions)["concurrency"])
  ELSE Infinity

ExecaOpts(callOptions) == RestWithout(ExecaAssigned(callOptions), "concurrency")

\* Variant of ExecaPMapConcurrency that is off by one.
ExecaPMapConcurrencyPlusOne(c) == IF c.finite THEN Finite(c.n + 1) ELSE c

\* The concurrency exec hands to p-map: { concurrency }.
ExecaPMapConcurrency(c) == c

\* Variant of ExecaExecBody whose commands array lives at module level and is
\* appended to by every call.
ExecaExecBodySharedCommands(name, callOptions) ==
  /\ entry' = name
  /\ commands' = commands \o NormalizeCommands(cmds)
  /\ cmds' = CallerInputAfter(cmds)
  /\ opts' = ExecaOpts(callOptions)
  /\ concurrency' = ExecaConcurrency(callOptions)
  /\ SetPMapState(PMap(commands \o NormalizeCommands(cmds),
                       ExecaOpts(callOptions),
                       ExecaPMapConcurrency(ExecaConcurrency(callOptions))))
  /\ CallerCalls
  /\ UNCHANGED <<options, cli, build>>

\* exec(cmds, options) of @tunnckocore/execa, up to the returned promise.
ExecaExecBody(name, callOptions) ==
  /\ entry' = name
  /\ commands' = NormalizeCommands(cmds)
  /\ cmds' = CallerInputAfter(cmds)
  /\ opts' = ExecaOpts(callOptions)
  /\ concurrency' = ExecaConcurrency(callOptions)
  /\ SetPMapState(PMap(NormalizeCommands(cmds), ExecaOpts(callOptions),
                       ExecaPMapConcurrency(ExecaConcurrency(callOptions))))
  /\ CallerCalls
  /\ UNCHANGED <<options, cli, build>>

\* Variant of ShellOptions in which the caller's shell value wins.
ShellOptionsCallerWins(callOptions) ==
  ObjectAssign(ObjectAssign(EmptyBag, "shell" :> TRUE), callOptions)

\* Object.assign({}, options, { shell: true })
ShellOptions(callOptions) ==
  ObjectAssign(ObjectAssign(EmptyBag, callOptions), "shell" :> TRUE)

ExecaExec ==
  /\ CanCall("execa.exec")
  /\ ExecaExecBody("execa.exec", options)

ExecaShell ==
  /\ CanCall("execa.shell")
  /\ ExecaExecBody("execa.shell", ShellOptions(options))

IsExeca == entry \in {"execa.exec", "execa.shell"}

\* A subprocess started through p-map exits 0.
ExecaCommandFulfilled(i) ==
  /\ IsExeca
  /\ i \in running
  /\ Succeeds(commands[i])
  /\ SetPMapState(PMapFulfilled(PMapState, commands, opts, i))
  /\ UNCHANGED <<cmds, options, entry, commands, opts, concurrency,
                 callsLeft, previous, cli, build>>

\* Variant of ExecaCommandRejected that reports the failure only when no
\* other command is in flight.
ExecaCommandRejectedWaits(i) ==
  /\ IsExeca
  /\ i \in running
  /\ ~Succeeds(commands[i])
  /\ SetPMapState(
       IF running = {i}
       THEN PMapRejected(PMapState, commands, i)
       ELSE [PMapState EXCEPT !.isRejected = TRUE, !.running = running \ {i}])
  /\ UNCHANGED <<cmds, options, entry, commands, opts, concurrency,
                 callsLeft, previous, cli, build>>

\* A subprocess started through p-map fails.
ExecaCommandRejected(i) ==
  /\ IsExeca
  /\ i \in running
  /\ ~Succeeds(commands[i])
  /\ SetPMapState(PMapRejected(PMapState, commands, i))
  /\ UNCHANGED <<cmds, options, entry, commands, opts, concurrency,
                 callsLeft, previous, cli, build>>

(***************************************************************************)
(* hela-core                                                               *)
(***************************************************************************)

\* const defaultOptions = { stdio: 'inherit', env: proc.env }
defaultOptions == ("stdio" :> "inherit") @@ ("env" :> "proc.env")

\* const opts = Object.assign({}, defaultOptions, options)
HelaOpts(callOptions) ==
  ObjectAssign(ObjectAssign(EmptyBag, defaultOptions), callOptions)

\* Variant of HelaLoopStep that goes on to the command after the next.
HelaLoopStepSkipping(items, o, i, log, p) ==
  IF i + 1 < Len(items)
  THEN /\ currentIndex' = i + 2
       /\ spawned' = Append(log, ExecaCommand(i + 2, items[i + 2], o))
       /\ running' = {i + 2}
       /\ promise' = p
  ELSE /\ currentIndex' = i
       /\ spawned' = log
       /\ running' = {}
       /\ promise' = Settle(p, Fulfilled(Undefined))

\* One turn of `for (const cmd of commands) { await execa.command(cmd, opts) }`
\* from position i: start the next command, or fall off the end of the async
\* function, which resolves its promise with undefined.  log is the runner
\* calls of this call so far, p the promise of this call.
HelaLoopStep(items, o, i, log, p) ==
  IF i < Len(items)
  THEN /\ currentIndex' = i + 1
       /\ spawned' = Append(log, ExecaCommand(i + 1, items[i + 1], o))
       /\ running' = {i + 1}
       /\ promise' = p
  ELSE /\ currentIndex' = i
       /\ spawned' = log
       /\ running' = {}
       /\ promise' = Settle(p, Fulfilled(Undefined))

\* exec(cmds, options) of hela-core, up to its first await.
HelaExecBody(name, callOptions) ==
  /\ entry' = name
  /\ commands' = NormalizeCommands(cmds)
  /\ cmds' = CallerInputAfter(cmds)
  /\ opts' = HelaOpts(callOptions)
  /\ HelaLoopStep(NormalizeCommands(cmds), HelaOpts(callOptions), 0,
                  <<>>, Pending)
  /\ concurrency' = Infinity
  /\ ret' = EmptyBag
  /\ resolvingCount' = 0
  /\ isRejected' = FALSE
  /\ isIterableDone' = FALSE
  /\ CallerCalls
  /\ UNCHANGED <<options, cli, build>>

HelaExec ==
  /\ CanCall("hela.exec")
  /\ HelaExecBody("hela.exec", options)

HelaShell ==
  /\ CanCall("hela.shell")
  /\ HelaExecBody("hela.shell", ShellOptions(options))

IsHela == entry \in {"hela.exec", "hela.shell"}

\* The awaited subprocess exits 0: the loop goes on.
HelaAwaitFulfilled(i) ==
  /\ IsHela
  /\ i \in running
  /\ Succeeds(commands[i])
  /\ HelaLoopStep(commands, opts, i, spawned, promise)
  /\ UNCHANGED <<cmds, options, entry, commands, opts, concurrency, ret,
                 resolvingCount, isRejected, isIterableDone,
                 callsLeft, previous, cli, build>>

\* Variant of HelaAwaitRejected that swallows the failure and finishes the
\* async function normally.
HelaAwaitRejectedSwallowed(i) ==
  /\ IsHela
  /\ i \in running
  /\ ~Succeeds(commands[i])
  /\ running' = {}
  /\ promise' = Settle(promise, Fulfilled(Undefined))
  /\ UNCHANGED <<cmds, options, entry, commands, opts, concurrency, spawned,
                 ret, currentIndex, resolvingCount, isRejected, isIterableDone,
                 callsLeft, previous, cli, build>>

\* Variant of HelaAwaitRejected that rejects but lets the loop go on.
HelaAwaitRejectedContinues(i) ==
  /\ IsHela
  /\ i \in running
  /\ ~Succeeds(commands[i])
  /\ IF i < Len(commands)
     THEN /\ currentIndex' = i + 1
          /\ spawned' =
               Append(spawned, ExecaCommand(i + 1, commands[i + 1], opts))
          /\ running' = {i + 1}
     ELSE /\ currentIndex' = currentIndex
          /\ spawned' = spawned
          /\ running' = {}
  /\ promise' = Settle(promise, Rejected(ExecaError(commands[i])))
  /\ UNCHANGED <<cmds, options, entry, commands, opts, concurrency,
                 ret, resolvingCount, isRejected, isIterableDone,
                 callsLeft, previous, cli, build>>

\* The awaited subprocess fails: await throws, the async function rejects.
HelaAwaitRejected(i) ==
  /\ IsHela
  /\ i \in running
  /\ ~Succeeds(commands[i])
  /\ running' = {}
  /\ promise' = Settle(promise, Rejected(ExecaError(commands[i])))
  /\ UNCHANGED <<cmds, options, entry, commands, opts, concurrency, spawned,
                 ret, currentIndex, resolvingCount, isRejected, isIterableDone,
                 callsLeft, previous, cli, build>>

Next ==
  \/ ExecaExec
  \/ ExecaShell
  \/ HelaExec
  \/ HelaShell
  \/ \E i \in 1..MaxLen + 1 : ExecaCommandFulfilled(i)
  \/ \E i \in 1..MaxLen + 1 : ExecaCommandRejected(i)
  \/ \E i \in 1..MaxLen + 1 : HelaAwaitFulfilled(i)
  \/ \E i \in 1..MaxLen + 1 : HelaAwaitRejected(i)

Spec == Init /\ [][Next]_vars

\* The caller calls MaxCalls times in a row, awaiting each batch.
InitTwice ==
  /\ InitBatch
  /\ callsLeft = MaxCalls

SpecTwice == InitTwice /\ [][Next]_vars

(***************************************************************************)
(* hela(options): a Sade program whose action and listen are replaced.     *)
(* The program is defined (command, option, action) and then listen() is   *)
(* called once, as a CLI entry point does.  Sade is the argument parser:   *)
(* it keeps one entry per command in prog.tree, the command being defined  *)
(* in prog.curr, and parse(argv, { lazy: true }) hands back the selected   *)
(* command instead of running it.                                          *)
(***************************************************************************)

\* Names the program's author gives to tasks with command(name).
TaskNames == {"build", "test"}
\* The name action() uses when no command is being defined.
DefaultTask == "__default__"
\* Sade's entry for the options given before any command.
AllTasks == "__all__"
\* proc.cwd()
Cwd == "/work"

\* The functions the author passes to action(); Undefined is a non-function.
UserFunctions ==
  {[type |-> "function", id |-> "f"], [type |-> "function", id |-> "g"]}
ActionArguments == UserFunctions \cup {Undefined}

\* typeof fn === 'function'
IsFunction(fn) == fn.type = "function"

\* The wrapper action() stores as taskObj.handler; it closes over name and fn.
WrappedHandler(name, fn) == [type |-> "function", task |-> name, fn |-> fn]

\* A fresh entry of prog.tree: no defaults, no handler.
TaskObject == [default |-> EmptyBag, handler |-> Undefined]

\* The entry Sade's option() writes to: the command being defined, or the
\* program-wide entry when there is none.
OptionTarget(curr) == IF curr = "" THEN AllTasks ELSE curr

\* option(flag, description, value): the flag's default value is recorded.
SadeOption(tree, curr, flag, value) ==
  [tree EXCEPT ![OptionTarget(curr)].default = ObjectAssign(@, flag :> value)]

\* const name = this.curr || '__default__'
ActionName(curr) == IF curr = "" THEN DefaultTask ELSE curr

\* What a handler may throw or reject with: an Error object, or nothing at all
\* (Promise.reject() / throw undefined).
ErrorObject(message) ==
  [type |-> "Error", ref |-> "thrown", message |-> message, own |-> EmptyBag]
Throwables == {ErrorObject("boom"), Undefined}

\* The TypeError Object.assign raises for an undefined or null target, and
\* the one raised by reading a property of undefined.
TypeErrorObject ==
  [type |-> "TypeError", ref |-> "raised", message |-> "not an object",
   own |-> EmptyBag]

\* The hela() program before anything is defined on it.
HelaProgram ==
  [pc |-> "idle",
   curr |-> "",
   tree |-> [n \in {AllTasks, DefaultTask} |-> TaskObject],
   commands |-> {},
   argv |-> [command |-> "", positional |-> <<>>, flags |-> EmptyBag,
             help |-> FALSE],
   result |-> Undefined,
   invoked |-> <<>>,
   thrown |-> Undefined,
   promise |-> Pending]

\* The program is still being defined and listen() has not been called.
Defining == cli.pc = "idle"

\* prog.command(name): a new entry in the tree, which becomes the current one.
SadeCommand(name) ==
  /\ Defining
  /\ name \notin DOMAIN cli.tree
  /\ cli' = [cli EXCEPT !.curr = name,
                        !.tree = (name :> TaskObject) @@ cli.tree]
  /\ UNCHANGED <<batchVars, build>>

\* prog.option('--watch', ..., false) by the author.
AuthorOption ==
  /\ Defining
  /\ "watch" \notin DOMAIN cli.tree[OptionTarget(cli.curr)].default
  /\ cli' = [cli EXCEPT !.tree = SadeOption(cli.tree, cli.curr, "watch", FALSE)]
  /\ UNCHANGED <<batchVars, build>>

\* taskObj.handler after the typeof test of action(fn).
ActionHandler(taskObj, name, fn) ==
  IF IsFunction(fn) THEN WrappedHandler(name, fn) ELSE taskObj.handler

\* prog.tree after action(fn): the handler is stored on the task's entry and
\* this.option('--cwd', 'Current working directory', proc.cwd()) has run.
ActionTree(tree, curr, fn) ==
  SadeOption(
    [tree EXCEPT ![ActionName(curr)].handler =
                   ActionHandler(tree[ActionName(curr)], ActionName(curr), fn)],
    curr, "cwd", Cwd)

\* prog.action(fn).  Object.assign(taskObj.handler, this) throws a TypeError
\* when the task has no handler (fn is not a function): the definition of
\* the program fails there.
Action(fn) ==
  /\ Defining
  /\ ActionName(cli.curr) \notin cli.commands
  /\ LET name == ActionName(cli.curr)
         tree == ActionTree(cli.tree, cli.curr, fn)
     IN cli' = [cli EXCEPT
                  !.tree = tree,
                  !.commands = @ \cup {name},
                  !.pc = IF tree[name].handler = Undefined
                         THEN "definitionFailed" ELSE @]
  /\ UNCHANGED <<batchVars, build>>

\* The command lines the program is started with: the first word, the
\* positional arguments after it, the flags (--help is the parser's own).
Argvs ==
  [command : {"", "build", "test", "lint"},
   positional : {<<>>, <<"src">>},
   flags : {EmptyBag, "cwd" :> "/tmp"},
   help : BOOLEAN]

\* The argument object Sade builds for command `name`: the program-wide and
\* the command's defaults, overridden by the flags given, and the rest list.
ParsedArgv(tree, name, flags) ==
  ObjectAssign(
    ObjectAssign(ObjectAssign(tree[AllTasks].default, tree[name].default),
                 flags),
    "_" :> <<>>)

\* A command line selects a task when its first word is the name of a command
\* that action() has given a handler.
Selects(argv, program) ==
  /\ ~argv.help
  /\ argv.command \in program.commands \ {DefaultTask}

\* prog.parse(proc.argv, opts) with opts.lazy: the selected task's positional
\* arguments followed by the argument object, its name and its handler; or
\* nothing (undefined) when the parser handled the command line itself.
SadeParse(argv, program) ==
  IF Selects(argv, program)
  THEN [type |-> "object",
        args |-> argv.positional
                   \o <<ParsedArgv(program.tree, argv.command, argv.flags)>>,
        name |-> argv.command,
        handler |-> program.tree[argv.command].handler]
  ELSE Undefined

\* Variant of ListenReturnsEarly that never returns early.
ListenReturnsEarlyNever(result) == FALSE

\* if (!result || (result && !result.args && !result.name)) return;
ListenReturnsEarly(result) ==
  \/ result.type = "undefined"
  \/ /\ "args" \notin DOMAIN result
     /\ "name" \notin DOMAIN result

\* Variant of HandlerArguments that merges the fallback into the last argument.
HandlerArgumentsMerged(tree, handler, args) ==
  IF args = <<>>
  THEN <<ObjectAssign(tree[handler.task].default, "_" :> <<handler.task>>)>>
  ELSE [args EXCEPT ![Len(args)] =
          ObjectAssign(
            ObjectAssign(tree[handler.task].default, "_" :> <<handler.task>>),
            @)]

\* The arguments the wrapper calls fn with:
\*   const fakeArgv = Object.assign({}, taskObj.default, { _: [name] });
\*   return fn.apply(this, args.concat(fakeArgv));
HandlerArguments(tree, handler, args) ==
  args \o <<ObjectAssign(tree[handler.task].default, "_" :> <<handler.task>>)>>

\* One call of the author's function, as the wrapper makes it.
Invocation(tree, handler, args) ==
  [task |-> handler.task, fn |-> handler.fn,
   args |-> HandlerArguments(tree, handler, args)]

\* The object literal of listen's catch block; args.pop() takes the last
\* element out of args before commandArgs reads it.
CommandFields(args, name) ==
  ("commandArgv" :> args[Len(args)])
    @@ ("commandArgs" :> SubSeq(args, 1, Len(args) - 1))
    @@ ("commandName" :> name)

\* const error = Object.assign(err, { ... }); throw error;
\* What listen throws: err itself with the fields set, or the TypeError of
\* Object.assign when err is undefined.
EnrichError(err, args, name) ==
  IF err.type = "undefined"
  THEN TypeErrorObject
  ELSE [err EXCEPT !.own = ObjectAssign(@, CommandFields(args, name))]

\* listen() returns at its guard: the returned promise fulfils with undefined.
ListenReturns(argv, result) ==
  cli' = [cli EXCEPT !.pc = "nomatch", !.argv = argv, !.result = result,
                     !.promise = Fulfilled(Undefined)]

\* listen() goes past its guard.  const { args, name, handler } = result
\* throws a TypeError for an undefined result, outside the try block;
\* otherwise handler.apply(this, args) runs the wrapper, which calls the
\* author's function, whose promise listen then awaits.
ListenDispatches(argv, result) ==
  IF result.type = "undefined"
  THEN cli' = [cli EXCEPT !.pc = "failed", !.argv = argv, !.result = result,
                          !.promise = Rejected(TypeErrorObject)]
  ELSE cli' = [cli EXCEPT
                 !.pc = "running", !.argv = argv, !.result = result,
                 !.invoked = Append(@, Invocation(cli.tree, result.handler,
                                                  result.args))]

\* prog.listen(), up to its await.
Listen ==
  /\ Defining
  /\ \E argv \in Argvs :
       LET result == SadeParse(argv, cli)
       IN IF ListenReturnsEarly(result)
          THEN ListenReturns(argv, result)
          ELSE ListenDispatches(argv, result)
  /\ UNCHANGED <<batchVars, build>>

\* The awaited handler fulfils: listen's promise fulfils with undefined.
HandlerFulfilled ==
  /\ cli.pc = "running"
  /\ cli' = [cli EXCEPT !.pc = "succeeded", !.promise = Fulfilled(Undefined)]
  /\ UNCHANGED <<batchVars, build>>

\* The awaited handler throws or rejects with err: the catch block runs.
HandlerRejected(err) ==
  /\ cli.pc = "running"
  /\ cli' = [cli EXCEPT
               !.pc = "failed",
               !.thrown = err,
               !.promise = Rejected(EnrichError(err, cli.result.args,
                                                cli.result.name))]
  /\ UNCHANGED <<batchVars, build>>

InitListen ==
  /\ BatchUnused
  /\ cli = HelaProgram
  /\ build = NoBuild

NextListen ==
  \/ \E name \in TaskNames : SadeCommand(name)
  \/ AuthorOption
  \/ \E fn \in ActionArguments : Action(fn)
  \/ Listen
  \/ HandlerFulfilled
  \/ \E err \in Throwables : HandlerRejected(err)

SpecListen == InitListen /\ [][NextListen]_vars

(***************************************************************************)
(* createBuildConfig(options) of hela-dev: the configuration record of the *)
(* build runner, computed from options.env.NODE_ENV, options.mono and      *)
(* options.cwd.  One behaviour is one call.                                *)
(***************************************************************************)

\* options.env as the caller may give it: left out, given as undefined, or
\* an object with or without NODE_ENV.
BuildEnvs ==
  {EmptyBag, "env" :> Undefined, "env" :> EmptyBag}
    \cup {"env" :> ("NODE_ENV" :> v) : v \in {"main", "module", "test"}}

\* A string, where undefined may stand in its place.
StringValue(s) == [type |-> "string", value |-> s]

\* The options argument of createBuildConfig, when one is given.
BuildOptionBags ==
  { e @@ mn @@ c :
      e \in BuildEnvs,
      mn \in {EmptyBag, "mono" :> FALSE, "mono" :> TRUE},
      c \in {EmptyBag} \cup {"cwd" :> StringValue(dir) : dir \in {"/work", "/repo", "."}} }

\* createBuildConfig() and createBuildConfig(options).
BuildArguments ==
  {[given |-> FALSE]} \cup [given : {TRUE}, value : BuildOptionBags]

\* const opts = Object.assign({ env: { NODE_ENV: 'main' } }, options);
\* Object.assign skips an undefined source.
BuildOpts(argument) ==
  IF argument.given
  THEN ObjectAssign("env" :> ("NODE_ENV" :> "main"), argument.value)
  ELSE "env" :> ("NODE_ENV" :> "main")

\* opts.env.NODE_ENV cannot be read: opts.env is undefined.
BuildEnvUnreadable(o) == o["env"] = Undefined

\* opts.env.NODE_ENV === 'module'
BuildIsModule(o) ==
  /\ "NODE_ENV" \in DOMAIN o["env"]
  /\ o["env"]["NODE_ENV"] = "module"

\* const match = opts.mono ? 'packages/*/src/**/*' : 'src/**/*';
BuildMatch(o) ==
  IF "mono" \in DOMAIN o /\ o["mono"]
  THEN "packages/*/src/**/*"
  ELSE "src/**/*"

\* displayName: opts.env.NODE_ENV === 'module' ? 'build:esm' : 'build:cjs'
BuildDisplayName(o) == IF BuildIsModule(o) THEN "build:esm" ELSE "build:cjs"

\* Variant of BuildOutDir that tests for the 'main' target instead.
BuildOutDirMainTest(o) ==
  IF "NODE_ENV" \in DOMAIN o["env"] /\ o["env"]["NODE_ENV"] = "main"
  THEN "dist/build/main"
  ELSE "dist/build/module"

\* outDir: opts.env.NODE_ENV === 'module' ? 'dist/build/module'
\*                                        : 'dist/build/main'
BuildOutDir(o) ==
  IF BuildIsModule(o) THEN "dist/build/module" ELSE "dist/build/main"

\* rootDir: opts.cwd
BuildRootDir(o) == IF "cwd" \in DOMAIN o THEN o["cwd"] ELSE Undefined

\* The object literal createBuildConfig returns (babel, the imported babel
\* configuration, is left out).
BuildConfig(o) ==
  [displayName |-> BuildDisplayName(o),
   testEnvironment |-> "node",
   testMatch |-> <<"<rootDir>/" \o BuildMatch(o)>>,
   testPathIgnorePatterns |-> <<".+/__tests__/.+", ".+/dist/.+">>,
   haste |-> ("@tunnckocore/jest-runner-babel" :> [outDir |-> BuildOutDir(o)]),
   runner |-> "@tunnckocore/jest-runner-babel",
   moduleFileExtensions |-> <<"ts", "tsx", "js", "jsx", "mjs", "json">>,
   rootDir |-> BuildRootDir(o)]

\* createBuildConfig(options): returns the record, or throws the TypeError of
\* reading NODE_ENV of undefined.
CreateBuildConfig ==
  /\ build.pc = "called"
  /\ LET o == BuildOpts(build.argument)
     IN build' = IF BuildEnvUnreadable(o)
                 THEN [pc |-> "thrown", argument |-> build.argument,
                       error |-> TypeErrorObject]
                 ELSE [pc |-> "returned", argument |-> build.argument,
                       config |-> BuildConfig(o)]
  /\ UNCHANGED <<batchVars, cli>>

InitBuild ==
  /\ BatchUnused
  /\ cli = NoCli
  /\ build \in {[pc |-> "called", argument |-> a] : a \in BuildArguments}

NextBuild == CreateBuildConfig

SpecBuild == InitBuild /\ [][NextBuild]_vars

(***************************************************************************)
(* Vocabulary of the properties, stated on the caller's arguments and on   *)
(* what the process runner saw.                                            *)
(***************************************************************************)

\* The entries of the caller's cmds as a list (one string is one entry).
InputEntries == IF cmds.kind = "array" THEN cmds.value ELSE <<cmds.value>>

\* The non-falsy entries of the caller's cmds, in input order.
TruthyInput == SelectSeq(InputEntries, LAMBDA c : c # "")

Called == entry # "none"

\* The caller asked for concurrency n.
ConcurrencyIs(n) ==
  /\ "concurrency" \in DOMAIN options
  /\ options["concurrency"] = n

NoConcurrencyGiven == "concurrency" \notin DOMAIN options

\* Filtered indexes that were started / that have completed.
StartedIndexes == {spawned[j].index : j \in 1..Len(spawned)}
CompletedIndexes == StartedIndexes \ running

\* The first position of TruthyInput holding a failing command, 0 if none.
FirstFailingInInput ==
  IF \E i \in 1..Len(TruthyInput) : ExitCode(TruthyInput[i]) # 0
  THEN CHOOSE i \in 1..Len(TruthyInput) :
         /\ ExitCode(TruthyInput[i]) # 0
         /\ \A j \in 1..(i - 1) : ExitCode(TruthyInput[j]) = 0
  ELSE 0

\* Commands are started in input order: the j-th start is the j-th truthy entry.
StartedInInputOrder ==
  \A j \in 1..Len(spawned) :
    /\ spawned[j].index = j
    /\ j <= Len(TruthyInput)
    /\ spawned[j].cmd = TruthyInput[j]

(***************************************************************************)
(* C1                                                                      *)
(***************************************************************************)

\* C1: with concurrency = 1, commands are started strictly in input order,
\* every command started earlier has completed when the next one starts, and
\* at most one command is in flight.
C1_SerialInOrder ==
  (Called /\ ConcurrencyIs(1)) =>
     /\ StartedInInputOrder
     /\ Cardinality(running) <= 1
     /\ running \subseteq {Len(spawned)}

\* C1 witness: a serial p-map batch whose second command was started after
\* the first one completed.
C1_Witness ==
  /\ entry = "execa.exec"
  /\ ConcurrencyIs(1)
  /\ Len(TruthyInput) = 3
  /\ Len(spawned) = 2
  /\ running = {2}

(***************************************************************************)
(* C2                                                                      *)
(***************************************************************************)

\* No failing command has completed yet.
NoFailureYet == \A i \in CompletedIndexes : Succeeds(commands[i])

\* The batch runs its commands one at a time.
RunsSerially == IsHela \/ ConcurrencyIs(1)

\* C2 as stated: whenever the batch has failed, it failed with the error of
\* the first failing command in input order, for every concurrency value.
C2_FirstFailingInInputOrder ==
  promise.state = "rejected" =>
     /\ FirstFailingInInput # 0
     /\ promise.value = ExecaError(TruthyInput[FirstFailingInInput])

\* C2 amended: the batch fails with the error of the failing command that
\* completes first: the step on which a failing command completes while no
\* failure has completed before rejects the batch with that command's error,
\* a later completion never changes the error, and a batch is rejected only
\* so.  When commands run one at a time (concurrency 1, or hela-core's exec)
\* that command is the first failing command in input order.
C2_FirstFailureInTime ==
  /\ [][\A i \in running :
          (i \notin running' /\ ~Succeeds(commands[i])) =>
             IF NoFailureYet
             THEN promise' = Rejected(ExecaError(commands[i]))
             ELSE promise' = promise /\ promise.state = "rejected"]_vars
  /\ [](promise.state = "rejected" <=> ~NoFailureYet)
  /\ []((RunsSerially /\ promise.state = "rejected") =>
          /\ FirstFailingInInput # 0
          /\ promise.value = ExecaError(TruthyInput[FirstFailingInInput]))

\* C2 witness: a parallel batch rejected with the error of its second
\* command although its first command fails too.
C2_Witness ==
  /\ entry = "execa.exec"
  /\ TruthyInput = <<"exit 3", "exit 4">>
  /\ promise = Rejected(ExecaError("exit 4"))
  /\ running = {1}

(***************************************************************************)
(* C3                                                                      *)
(***************************************************************************)

\* The results of the truthy input entries, in input order.
ResultsInInputOrder ==
  [i \in 1..Len(TruthyInput) |-> ExecaResult(TruthyInput[i])]

AllSucceed == \A i \in 1..Len(TruthyInput) : ExitCode(TruthyInput[i]) = 0

\* The batch is over: called, and nothing left in flight or to start.
BatchOver == Called /\ running = {} /\ (promise.state # "pending")

\* C3 as stated: a batch whose commands all succeed resolves with the
\* sequence of their results, in input order, in both packages.
C3_ResolvesWithOrderedResults ==
  (Called /\ AllSucceed) =>
     /\ promise.state # "rejected"
     /\ running = {} => promise.state = "fulfilled"
     /\ promise.state = "fulfilled" =>
          promise.value = ArrayValue(ResultsInInputOrder)

\* C3 amended: when every command succeeds, exec of @tunnckocore/execa
\* resolves with the results of the filtered commands, same length and order
\* as the filtered input whatever the concurrency and the completion order;
\* exec of hela-core resolves as well, but with undefined: it returns no
\* results.
C3_ResolvedValue ==
  (Called /\ AllSucceed) =>
     /\ promise.state # "rejected"
     /\ running = {} => promise.state = "fulfilled"
     /\ promise.state = "fulfilled" =>
          /\ IsExeca =>
               /\ promise.value = ArrayValue(ResultsInInputOrder)
               /\ Len(promise.value.items) = Len(TruthyInput)
          /\ IsHela => promise.value = Undefined

\* C3 witness: a parallel batch of two different commands, around a falsy
\* entry, resolved with both results in input order.
C3_Witness ==
  /\ entry = "execa.exec"
  /\ NoConcurrencyGiven
  /\ cmds = [kind |-> "array", value |-> <<"echo b", "", "echo a">>]
  /\ promise =
       Fulfilled(ArrayValue(<<ExecaResult("echo b"), ExecaResult("echo a")>>))

(***************************************************************************)
(* C4                                                                      *)
(***************************************************************************)

\* C4: with a finite concurrency N at most N commands are in flight, every
\* command that is started is the one at the front of the pending list (the
\* lowest filtered index not started yet), and a command that succeeds while
\* commands are pending and nothing has failed makes exactly that one start.
C4_AtMostNInFlight ==
  /\ [](\A n \in 1..MaxConcurrency :
          (Called /\ ConcurrencyIs(n)) => Cardinality(running) <= n)
  /\ [][\A j \in (Len(spawned) + 1)..Len(spawned') :
          /\ spawned'[j].index = j
          /\ spawned'[j].cmd = commands'[j]
          /\ j \in running']_vars
  /\ [][\A i \in running :
          (/\ i \notin running'
           /\ Succeeds(commands[i])
           /\ NoFailureYet
           /\ Len(spawned) < Len(commands))
            => Len(spawned') = Len(spawned) + 1]_vars

\* C4 witness: concurrency 2 over three commands, the third started after one
\* of the first two completed, two in flight again.
C4_Witness ==
  /\ entry = "execa.exec"
  /\ ConcurrencyIs(2)
  /\ Len(commands) = 3
  /\ Len(spawned) = 3
  /\ Cardinality(running) = 2

(***************************************************************************)
(* C5                                                                      *)
(***************************************************************************)

Min(a, b) == IF a <= b THEN a ELSE b

\* The number of commands the caller's concurrency option allows in flight
\* out of `left` commands.
AllowedInFlight(left) ==
  IF NoConcurrencyGiven THEN left ELSE Min(options["concurrency"], left)

\* What the caller observes of a batch: which commands ran, in start order,
\* and how the promise settled.
ObservedOutcome ==
  [started |-> [j \in 1..Len(spawned) |-> spawned[j].cmd],
   state |-> promise.state,
   value |-> promise.value]

\* The outcome of running the truthy input one command at a time, stopping
\* at the first failure, as the public package reports it.
SerialOutcome ==
  IF FirstFailingInInput = 0
  THEN [started |-> TruthyInput, state |-> "fulfilled",
        value |-> ArrayValue(ResultsInInputOrder)]
  ELSE [started |-> SubSeq(TruthyInput, 1, FirstFailingInInput),
        state |-> "rejected",
        value |-> ExecaError(TruthyInput[FirstFailingInInput])]

\* C6 as stated: both packages run a batch under the limit the concurrency
\* option gives: while the batch is pending, the pool is kept full up to that
\* limit (the public package does so, whichever entry point is called).
C6_SameConcurrencyLimit ==
  (Called /\ promise.state = "pending") =>
     Cardinality(running) =
       AllowedInFlight(Len(TruthyInput) - Cardinality(CompletedIndexes))

\* C6 amended: both packages normalise the input the same way, and with
\* concurrency = 1 they start the same commands in the same order and settle
\* the same way (both resolve, or both fail with the same command's error).
\* They differ in more than defaults and error context: hela-core's exec
\* ignores the concurrency option (it is always serial) and resolves with
\* undefined where the public package resolves with the result sequence.
C6_VariantsAgreeWhenSerial ==
  /\ Called => commands = TruthyInput
  /\ (BatchOver /\ ConcurrencyIs(1)) =>
        /\ ObservedOutcome.started = SerialOutcome.started
        /\ ObservedOutcome.state = SerialOutcome.state
        /\ ObservedOutcome.state = "rejected" =>
             ObservedOutcome.value = SerialOutcome.value
        /\ ObservedOutcome.state = "fulfilled" =>
             ObservedOutcome.value =
               IF IsHela THEN Undefined ELSE SerialOutcome.value
  /\ (IsHela /\ promise.state = "pending") => Cardinality(running) = 1

\* C6 witness: hela-core's exec, called with concurrency 1 on a list whose
\* second command fails, over with the same starts and the same error as the
\* serial run of the public package.
C6_Witness ==
  /\ entry = "hela.exec"
  /\ ConcurrencyIs(1)
  /\ cmds = [kind |-> "array", value |-> <<"echo a", "exit 3", "echo b">>]
  /\ BatchOver
  /\ ObservedOutcome.started = <<"echo a", "exit 3">>
  /\ promise = Rejected(ExecaError("exit 3"))

(***************************************************************************)
(* C7                                                                      *)
(***************************************************************************)

IsShell == entry \in {"execa.shell", "hela.shell"}

\* The options exec itself would hand to the runner for the caller's options.
ExecOptsOfCaller == IF IsExeca THEN ExecaOpts(options) ELSE HelaOpts(options)

\* C7: through shell, every command is handed to the runner with shell true,
\* whatever shell value the caller gave, and with every other option exactly
\* as exec would hand it for the caller's options; the filtered commands and
\* the concurrency are those of exec.
C7_ShellForcesShellTrue ==
  (Called /\ IsShell) =>
     /\ DOMAIN opts = DOMAIN ExecOptsOfCaller \cup {"shell"}
     /\ opts["shell"] = TRUE
     /\ \A k \in DOMAIN opts \ {"shell"} : opts[k] = ExecOptsOfCaller[k]
     /\ \A j \in 1..Len(spawned) : spawned[j].opts = opts
     /\ commands = TruthyInput
     /\ IsExeca =>
          concurrency =
            IF NoConcurrencyGiven THEN Infinity
            ELSE Finite(options["concurrency"])

\* C7 witness: shell called with shell: false has handed a command to the
\* runner with shell true.
C7_Witness ==
  /\ entry = "execa.shell"
  /\ "shell" \in DOMAIN options
  /\ options["shell"] = FALSE
  /\ "stdio" \in DOMAIN options
  /\ Len(spawned) > 0
  /\ spawned[1].opts["shell"] = TRUE
  /\ spawned[1].opts["stdio"] = "pipe"

(***************************************************************************)
(* C8                                                                      *)
(***************************************************************************)

\* How many runner calls were made for filtered index i.
StartsOf(i) == Cardinality({j \in 1..Len(spawned) : spawned[j].index = i})

\* C8: the runner only ever gets non-falsy entries of the input, the i-th
\* filtered command being the i-th non-falsy entry; a single string is a list
\* of one; no entry is started twice, before or after a failure; and when the
\* batch resolves every non-falsy entry has been started exactly once.
C8_NormalizedNoRetry ==
  Called =>
     /\ \A j \in 1..Len(spawned) :
          /\ spawned[j].cmd # ""
          /\ spawned[j].index \in 1..Len(TruthyInput)
          /\ spawned[j].cmd = TruthyInput[spawned[j].index]
          /\ \E k \in 1..Len(InputEntries) : InputEntries[k] = spawned[j].cmd
     /\ \A i \in 1..Len(TruthyInput) : StartsOf(i) <= 1
     /\ cmds.kind = "string" => Len(spawned) <= 1
     /\ promise.state = "fulfilled" =>
          \A i \in 1..Len(TruthyInput) : StartsOf(i) = 1

\* C8 witness: a list with a falsy entry between two commands, resolved after
\* exactly the two commands ran.
C8_Witness ==
  /\ Called
  /\ cmds = [kind |-> "array", value |-> <<"echo a", "", "echo b">>]
  /\ promise.state = "fulfilled"
  /\ Len(spawned) = 2

(***************************************************************************)
(* C9                                                                      *)
(***************************************************************************)

\* The options the entry point passes on to exec: the caller's, with shell
\* true on top when the entry point is shell.
EffectiveCallerOptions ==
  IF IsShell
  THEN [k \in DOMAIN options \cup {"shell"} |->
          IF k = "shell" THEN TRUE ELSE options[k]]
  ELSE options

\* C9 as stated: in both packages every command is handed to the runner with
\* preferLocal true unless the caller gave preferLocal, with every other
\* caller option verbatim, and without the concurrency option.
C9_PreferLocalDefault ==
  \A j \in 1..Len(spawned) :
    LET o == spawned[j].opts
        given == EffectiveCallerOptions
    IN /\ "preferLocal" \in DOMAIN o
       /\ o["preferLocal"] =
            IF "preferLocal" \in DOMAIN given THEN given["preferLocal"]
            ELSE TRUE
       /\ "concurrency" \notin DOMAIN o
       /\ \A k \in DOMAIN given \ {"concurrency"} :
            k \in DOMAIN o /\ o[k] = given[k]

\* C9 amended: exec of @tunnckocore/execa hands every command to the runner
\* with preferLocal true unless the caller gave preferLocal, forwards every
\* other caller option verbatim and keeps concurrency for itself, the only
\* option not forwarded.  exec of hela-core has no preferLocal default: its
\* defaults are stdio 'inherit' and env the process environment, the caller's
\* options win over them, and every caller option is forwarded, concurrency
\* included.
C9_ForwardedOptions ==
  \A j \in 1..Len(spawned) :
    LET o == spawned[j].opts
        given == EffectiveCallerOptions
    IN /\ \A k \in DOMAIN given \ {"concurrency"} :
            k \in DOMAIN o /\ o[k] = given[k]
       /\ IsExeca =>
            /\ DOMAIN o = (DOMAIN given \cup {"preferLocal"}) \ {"concurrency"}
            /\ "preferLocal" \notin DOMAIN given => o["preferLocal"] = TRUE
       /\ IsHela =>
            /\ DOMAIN o = DOMAIN given \cup {"stdio", "env"}
            /\ "stdio" \notin DOMAIN given => o["stdio"] = "inherit"
            /\ "env" \notin DOMAIN given => o["env"] = "proc.env"
            /\ "concurrency" \in DOMAIN given =>
                 o["concurrency"] = given["concurrency"]

\* C9 witness: the public exec called with preferLocal false, stdio and a
\* concurrency has handed a command to the runner with the caller's
\* preferLocal and stdio and no concurrency.
C9_Witness ==
  /\ entry = "execa.exec"
  /\ ConcurrencyIs(2)
  /\ Len(spawned) > 0
  /\ spawned[1].opts = ("preferLocal" :> FALSE) @@ ("stdio" :> "pipe")

(***************************************************************************)
(* C10                                                                     *)
(***************************************************************************)

\* C10: no step of a batch, the call included, changes the caller's command
\* list: same entries, same order, falsy entries included.
C10_InputNotMutated == [][cmds' = cmds]_vars

\* C10 witness: a batch over whose input list still holds the falsy entry
\* that was left out of the execution.
C10_Witness ==
  /\ BatchOver
  /\ cmds = [kind |-> "array", value |-> <<"", "exit 3", "echo a">>]
  /\ commands = <<"exit 3", "echo a">>

(***************************************************************************)
(* C16                                                                     *)
(***************************************************************************)

\* C16: once the batch has been rejected no further command is started,
\* whatever the concurrency; the commands in flight at that point are not
\* cancelled: each can still complete, and a success is still recorded.
C16_NoStartAfterFailure ==
  /\ [][promise.state = "rejected" => spawned' = spawned]_vars
  /\ [](promise.state = "rejected" =>
          \A i \in running :
            ENABLED (ExecaCommandFulfilled(i) \/ ExecaCommandRejected(i)))
  /\ [][\A i \in running :
          (/\ promise.state = "rejected"
           /\ i \notin running'
           /\ Succeeds(commands[i])) => i \in DOMAIN ret']_vars

\* C16 witness: concurrency 2 over three commands; the first failed while the
\* second was in flight, the second then completed, the third never started.
C16_Witness ==
  /\ entry = "execa.exec"
  /\ ConcurrencyIs(2)
  /\ commands = <<"exit 3", "echo a", "echo b">>
  /\ promise.state = "rejected"
  /\ running = {}
  /\ 2 \in DOMAIN ret
  /\ Len(spawned) = 2

(***************************************************************************)
(* C17                                                                     *)
(***************************************************************************)

\* C17: the step on which a command fails while the batch is pending rejects
\* the batch at once, the other commands staying in flight; and once the
\* batch is settled no later completion changes its outcome.
C17_FailsAtFirstFailure ==
  /\ [][\A i \in running :
          (/\ promise.state = "pending"
           /\ i \notin running'
           /\ ~Succeeds(commands[i]))
            => /\ promise'.state = "rejected"
               /\ running' = running \ {i}]_vars
  /\ [][promise.state # "pending" => promise' = promise]_vars

\* C17 witness: two failing commands in parallel; the batch was rejected by
\* the second one while the first was in flight, and the first one's later
\* failure left the outcome as it was.
C17_Witness ==
  /\ entry = "execa.exec"
  /\ commands = <<"exit 3", "exit 4">>
  /\ promise = Rejected(ExecaError("exit 4"))
  /\ running = {}
  /\ Len(spawned) = 2

(***************************************************************************)
(* C19                                                                     *)
(***************************************************************************)

\* C19: hela-core's exec, whatever concurrency the caller gives: commands are
\* started one at a time in input order, a command is started only after all
\* earlier ones have succeeded, nothing is started after a failing command,
\* and the batch is rejected exactly with that command's error.
C19_HelaAlwaysSerial ==
  IsHela =>
     /\ StartedInInputOrder
     /\ running \subseteq {Len(spawned)}
     /\ \A j \in 1..(Len(spawned) - 1) : Succeeds(spawned[j].cmd)
     /\ promise.state = "rejected" <=>
          /\ Len(spawned) > 0
          /\ running = {}
          /\ ~Succeeds(spawned[Len(spawned)].cmd)
     /\ promise.state = "rejected" =>
          promise.value = ExecaError(spawned[Len(spawned)].cmd)

\* C19 witness: hela-core's exec called with concurrency 2 stopped at the
\* failing second command of three.
C19_Witness ==
  /\ entry = "hela.exec"
  /\ ConcurrencyIs(2)
  /\ commands = <<"echo a", "exit 3", "echo b">>
  /\ promise = Rejected(ExecaError("exit 3"))
  /\ Len(spawned) = 2

(***************************************************************************)
(* C20                                                                     *)
(***************************************************************************)

\* Every started subprocess eventually completes.
CommandsComplete ==
  \A i \in 1..MaxLen + 1 :
    /\ WF_vars(ExecaCommandFulfilled(i))
    /\ WF_vars(ExecaCommandRejected(i))
    /\ WF_vars(HelaAwaitFulfilled(i))
    /\ WF_vars(HelaAwaitRejected(i))

FairSpec == Spec /\ CommandsComplete

\* C20: when every started command eventually completes, a called batch
\* eventually settles, it settles once, it is fulfilled only if every
\* filtered command succeeds and rejected only if one fails, and an empty
\* filtered list is fulfilled by the call itself without any process.
C20_BatchSettles ==
  /\ Called ~> (promise.state # "pending")
  /\ [][promise.state # "pending" => promise' = promise]_vars
  /\ [](promise.state = "fulfilled" => AllSucceed)
  /\ [](promise.state = "rejected" => ~AllSucceed)
  /\ []((Called /\ TruthyInput = <<>>) =>
          (promise.state = "fulfilled" /\ spawned = <<>>))

\* C20 witness: a batch of three commands under concurrency 2, fulfilled
\* after all three completed.
C20_Witness ==
  /\ entry = "execa.shell"
  /\ ConcurrencyIs(2)
  /\ Len(commands) = 3
  /\ promise.state = "fulfilled"
  /\ DOMAIN ret = {1, 2, 3}

(***************************************************************************)
(* C15                                                                     *)
(***************************************************************************)

\* The batch of the current call is over.
CurrentBatchOver == Called /\ running = {} /\ promise.state # "pending"

\* The outcome of the batch does not depend on the order in which the
\* subprocesses complete: at most one command, or no failing one, or a serial
\* run.
OrderIndependent == Len(TruthyInput) <= 1 \/ AllSucceed \/ RunsSerially

\* C15: a call repeated with the same commands and options gives the caller
\* what the previous call gave: the batch settles the same way, and, whenever
\* the completion order cannot matter (one command, as "exit 0"; no failing
\* command; a serial run), the runner is handed the same commands with the
\* same options in the same order and the promise settles with an equal
\* value.  Nothing of the previous batch is left in the new one.
C15_RepeatedCallSameOutcome ==
  (previous.called /\ CurrentBatchOver) =>
     /\ previous.entry = entry
     /\ promise.state = previous.promise.state
     /\ \A j \in 1..Len(spawned) :
          /\ j <= Len(TruthyInput)
          /\ spawned[j].opts = previous.started[1].opts
     /\ OrderIndependent =>
          /\ spawned = previous.started
          /\ promise = previous.promise

\* C15 witness: shell called a second time with the same single command has
\* resolved with the result the first call resolved with.
C15_Witness ==
  /\ entry = "execa.shell"
  /\ callsLeft = 0
  /\ cmds = [kind |-> "string", value |-> "echo a"]
  /\ previous.called
  /\ previous.promise = Fulfilled(ArrayValue(<<ExecaResult("echo a")>>))
  /\ promise = previous.promise
  /\ spawned = previous.started

(***************************************************************************)
(* hela().listen and hela().action                                         *)
(***************************************************************************)

\* listen() has been called.
Listened == cli.pc \in {"nomatch", "running", "succeeded", "failed"}

\* The handler that listen awaited has thrown or rejected.
HandlerFailed == cli.pc = "failed" /\ Len(cli.invoked) = 1

\* The parser's argument list of the invocation, as parse returned it.
ParserArgs == cli.result.args

\* `raised` is the error object `thrown`, not another one.
SameError(raised, thrown) ==
  /\ raised.type = thrown.type
  /\ thrown.type # "undefined" =>
       /\ raised.ref = thrown.ref
       /\ raised.message = thrown.message

\* `raised` carries the three fields of the invocation.
HasCommandFields(raised) ==
  /\ "own" \in DOMAIN raised
  /\ {"commandArgv", "commandArgs", "commandName"} \subseteq DOMAIN raised.own
  /\ raised.own["commandName"] = cli.result.name
  /\ raised.own["commandArgv"] = ParserArgs[Len(ParserArgs)]
  /\ raised.own["commandArgs"] = SubSeq(ParserArgs, 1, Len(ParserArgs) - 1)

\* C11: when the matched task's handler throws or rejects, listen rejects
\* with that same error, carrying commandName (the resolved task name),
\* commandArgv (the last element of the parser's argument list) and
\* commandArgs (the list without that element).  Violated by a handler that
\* rejects with undefined: listen rejects with a TypeError without fields.
C11_SameErrorEnriched ==
  HandlerFailed =>
    /\ cli.promise.state = "rejected"
    /\ SameError(cli.promise.value, cli.thrown)
    /\ HasCommandFields(cli.promise.value)

\* The case of C11 that the catch block handles: an Error object was thrown
\* with positional arguments on the command line.
C11_Witness ==
  /\ HandlerFailed
  /\ cli.thrown.type = "Error"
  /\ Len(ParserArgs) = 2
  /\ HasCommandFields(cli.promise.value)

\* The command line names no registered task and has no positional argument.
NothingMatches ==
  /\ cli.argv.command \notin DOMAIN cli.tree
  /\ cli.argv.positional = <<>>

\* C12: when argv matches no registered task name and has no positional
\* arguments, listen invokes no handler and raises no error: it ends at its
\* guard, its promise fulfilled.
C12_NoMatchIsSilentNoOp ==
  (Listened /\ NothingMatches) =>
    /\ cli.pc = "nomatch"
    /\ cli.invoked = <<>>
    /\ cli.promise = Fulfilled(Undefined)

C12_Witness ==
  /\ cli.pc = "nomatch"
  /\ NothingMatches
  /\ cli.argv.command = "lint"
  /\ "build" \in cli.commands

\* C13: one listen() invocation goes Idle -> Parsing -> NoMatch, or on to
\* Dispatching -> Running -> Succeeded | Failed.  At most one handler is
\* invoked, at most once, and only the handler of the task the parse
\* resolved; NoMatch invokes nothing, Succeeded resolves, Failed re-raises
\* the handler's error enriched; an error reaches the caller only in Failed.
\* Violated in Failed by a handler that rejects with undefined (see C11).
C13_ListenStateMachine ==
  /\ Len(cli.invoked) <= 1
  /\ \A k \in 1..Len(cli.invoked) :
       /\ cli.result.type = "object"
       /\ cli.invoked[k].task = cli.result.name
  /\ cli.pc = "nomatch" =>
       (cli.invoked = <<>> /\ cli.promise = Fulfilled(Undefined))
  /\ cli.pc = "running" =>
       (Len(cli.invoked) = 1 /\ cli.promise = Pending)
  /\ cli.pc = "succeeded" =>
       (Len(cli.invoked) = 1 /\ cli.promise = Fulfilled(Undefined))
  /\ cli.pc = "failed" =>
       /\ Len(cli.invoked) = 1
       /\ cli.promise.state = "rejected"
       /\ SameError(cli.promise.value, cli.thrown)
       /\ HasCommandFields(cli.promise.value)
  /\ cli.promise.state = "rejected" => cli.pc = "failed"

C13_Witness ==
  /\ cli.pc = "succeeded"
  /\ cli.invoked[1].task = "test"
  /\ "build" \in cli.commands

\* The fallback argument object of task `name`: its default argument values
\* and a positional list holding just its name.
FallbackArgv(name) == ObjectAssign(cli.tree[name].default, "_" :> <<name>>)

\* action() has registered --cwd for every task it attached a handler to, on
\* the entry that was current then.
CwdRegistered ==
  \A name \in cli.commands :
    LET target == IF name = DefaultTask THEN AllTasks ELSE name
    IN /\ "cwd" \in DOMAIN cli.tree[target].default
       /\ cli.tree[target].default["cwd"] = Cwd

\* C14 as stated: the author's function is called with the parser's
\* arguments, the fallback object merged into the argument object.
C14_FallbackMergedIntoArgv ==
  /\ CwdRegistered
  /\ \A k \in 1..Len(cli.invoked) :
       LET inv == cli.invoked[k]
           n == Len(ParserArgs)
       IN /\ Len(inv.args) = n
          /\ SubSeq(inv.args, 1, n - 1) = SubSeq(ParserArgs, 1, n - 1)
          /\ inv.args[n] = ObjectAssign(FallbackArgv(inv.task), ParserArgs[n])

\* C14, amended: attaching a handler registers --cwd (default: the working
\* directory), and every invocation calls the author's function with the
\* parser's arguments unchanged, followed by the fallback object (the task's
\* defaults, positional list of just the task name) as one more argument.
C14_FallbackAppended ==
  /\ CwdRegistered
  /\ \A name \in cli.commands :
       cli.tree[name].handler.type = "function" =>
         cli.tree[name].handler.task = name
  /\ \A k \in 1..Len(cli.invoked) :
       LET inv == cli.invoked[k]
           n == Len(ParserArgs)
       IN /\ Len(inv.args) = n + 1
          /\ SubSeq(inv.args, 1, n) = ParserArgs
          /\ inv.args[n + 1] = FallbackArgv(inv.task)
          /\ inv.args[n + 1]["_"] = <<inv.task>>
          /\ inv.args[n + 1]["cwd"] = Cwd

C14_Witness ==
  /\ Len(cli.invoked) = 1
  /\ Len(ParserArgs) = 2
  /\ ParserArgs[2]["cwd"] = "/tmp"
  /\ "watch" \in DOMAIN cli.tree[cli.invoked[1].task].default

(***************************************************************************)
(* createBuildConfig                                                       *)
(***************************************************************************)

\* options.env.NODE_ENV as the caller gave it is 'module'.
TargetIsModule ==
  /\ build.argument.given
  /\ "env" \in DOMAIN build.argument.value
  /\ build.argument.value["env"] # Undefined
  /\ "NODE_ENV" \in DOMAIN build.argument.value["env"]
  /\ build.argument.value["env"]["NODE_ENV"] = "module"

\* options.mono as the caller gave it is truthy.
MonoGiven ==
  /\ build.argument.given
  /\ "mono" \in DOMAIN build.argument.value
  /\ build.argument.value["mono"]

\* options.cwd as the caller gave it, undefined when left out.
CwdOption ==
  IF build.argument.given /\ "cwd" \in DOMAIN build.argument.value
  THEN build.argument.value["cwd"]
  ELSE Undefined

\* The outDir of the returned record.
ReturnedOutDir == build.config.haste["@tunnckocore/jest-runner-babel"].outDir

\* C18: the record createBuildConfig returns has displayName 'build:esm' and
\* outDir 'dist/build/module' exactly when env.NODE_ENV is 'module', and
\* 'build:cjs' with 'dist/build/main' otherwise, no options included;
\* testMatch is the one pattern '<rootDir>/packages/*/src/**/*' when mono is
\* truthy and '<rootDir>/src/**/*' otherwise; rootDir is the cwd option.
\* The call returns no record only when env is given as undefined.
C18_BuildTargetAgrees ==
  /\ build.pc = "returned" =>
       /\ TargetIsModule =>
            /\ build.config.displayName = "build:esm"
            /\ ReturnedOutDir = "dist/build/module"
       /\ ~TargetIsModule =>
            /\ build.config.displayName = "build:cjs"
            /\ ReturnedOutDir = "dist/build/main"
       /\ MonoGiven =>
            build.config.testMatch = <<"<rootDir>/packages/*/src/**/*">>
       /\ ~MonoGiven => build.config.testMatch = <<"<rootDir>/src/**/*">>
       /\ build.config.rootDir = CwdOption
  /\ build.pc = "thrown" =>
       /\ build.argument.given
       /\ "env" \in DOMAIN build.argument.value
       /\ build.argument.value["env"] = Undefined

C18_Witness ==
  /\ build.pc = "returned"
  /\ TargetIsModule
  /\ MonoGiven
  /\ build.config.rootDir = StringValue("/repo")
  /\ build.config.displayName = "build:esm"

====
